---------------------------- MODULE Spec2Model ----------------------------
(***************************************************************************)
(* A model of three parts of the multi-signer controller:                  *)
(*                                                                         *)
(*   - the DDNS manager (ddnsmgr): two lane workers, fetch and update,     *)
(*     each with an inbound op channel, a queue, a one-minute ticker and   *)
(*     a per-tick counter, executing ops with RLDdnsFetchRRset and         *)
(*     RLDdnsUpdate;                                                       *)
(*   - the LEAVE transitions LEAVE_SYNC_NSES, LEAVE_ADD_CDS and            *)
(*     LEAVE_ADD_CSYNC (precondition and action of each);                  *)
(*   - the auto-push scheduler (PushZones, PushZone).                      *)
(*                                                                         *)
(* Each part has its own specification (LaneSpec, LeaveSpec, PushSpec);    *)
(* the variables of the other parts stay at their initial values.          *)
(***************************************************************************)
EXTENDS Integers, Sequences, FiniteSets, TLC

(***************************************************************************)
(* Bounds of the model.                                                    *)
(***************************************************************************)
\* Ops accepted by the manager, over both lanes.
MaxOps == 3
\* Largest value of signers.ddns.limits.fetch / .update that is tried.
MaxLimit == 2

(***************************************************************************)
(* Program constants.                                                      *)
(***************************************************************************)
\* Capacity of the response channel FetchRRset makes for an op.
RespCap == 2

Lanes == {"fetch", "update"}

\* The values tried for the two configured limits: negative, missing/zero,
\* and positive ones.
Limits == (-1) .. MaxLimit

\* An op on a lane's inbound channel is "boxed" the way FetchRRset boxes it
\* (signer set, response channel of capacity RespCap), or it is the zero
\* SignerOp that Update sends ("bare": nil signer, nil response channel).
Shapes == {"boxed", "bare"}

VARIABLES
    \* ---- DDNS manager ----
    mgr,           \* "init", "running", "fatal" (log.Fatalf), "panic"
    fetch_limit,   \* viper.GetInt("signers.ddns.limits.fetch")
    update_limit,  \* viper.GetInt("signers.ddns.limits.update")
    opQueue,       \* lane -> fetchOpQueue / updateOpQueue (ops by number)
    lane_ops,      \* lane -> fetch_ops / update_ops
    pc,            \* lane -> "select", "range" (loop head), "call" (in RLDdns*)
    idx,           \* lane -> position of the range loop in the queue
    shape,         \* lane -> shape of each accepted op, by op number
    respBuf,       \* lane -> results buffered in each op's response channel
    written,       \* lane -> results ever written to each op's response channel
    got,           \* lane -> whether the op's caller has received its result
    calls,         \* lane -> RLDdns* calls made since the lane's last tick
    done,          \* the done channel: "open" or "closed" (shutdown signalled)
    ticker         \* lane -> "none", "running", "stopped" (ticker.Stop())

VARIABLES
    \* ---- LEAVE transitions ----
    zone,          \* the music.Zone a transition function is given
    ev             \* the evaluation made: function, inputs, outcome, DNS traffic

VARIABLES
    \* ---- auto-push scheduler ----
    zones,         \* the zones table: name -> [fsmmode, fsm, fsmstatus]
    pushpc,        \* "idle", "loop" (in PushZones' loop), "done" (returned
                   \* nil), "failed" (returned the error), "exit" (process ended)
    selected,      \* the slice of zone names PushZones collected
    pos,           \* position of PushZones' loop in that slice
    atStart,       \* the zones table as it was when the pass started
    stepped        \* the zones ZoneStepFsm was called on in the current pass,
                   \* in call order

VARIABLES
    \* ---- calls of the rlddns updater and of the HTTP adapter ----
    rl,            \* the call of the rlddns updater made: function, inputs,
                   \* ops put on the manager's channels, DNS messages sent
    http,          \* the request made through the HTTP adapter: function,
                   \* inputs, the request as sent, what the caller got back
    extracted      \* the call of ExtractHoldPeriod made: body and outcome

laneVars == <<mgr, fetch_limit, update_limit, opQueue, lane_ops, pc, idx,
              shape, respBuf, written, got, calls, done, ticker>>

leaveVars == <<zone, ev>>

pushVars == <<zones, pushpc, selected, pos, atStart, stepped>>

callVars == <<rl, http, extracted>>

vars == <<laneVars, leaveVars, pushVars, callVars>>

(***************************************************************************)
(* The values of each part's variables while another part is looked at.    *)
(***************************************************************************)

\* No evaluation of a transition function has been made.
NoEval == [fn |-> "none"]

\* A zone that is in no process.
IdleZone ==
    [ZoneType |-> "normal", FSM |-> "", State |-> "", FSMSigner |-> "",
     FSMStatus |-> "", StopReason |-> <<>>,
     SGroup |-> [present |-> FALSE, SignerMap |-> {}]]

LaneIdle ==
    /\ mgr = "init"
    /\ fetch_limit = 0
    /\ update_limit = 0
    /\ opQueue = [L \in Lanes |-> <<>>]
    /\ lane_ops = [L \in Lanes |-> 0]
    /\ pc = [L \in Lanes |-> "select"]
    /\ idx = [L \in Lanes |-> 1]
    /\ shape = [L \in Lanes |-> <<>>]
    /\ respBuf = [L \in Lanes |-> <<>>]
    /\ written = [L \in Lanes |-> <<>>]
    /\ got = [L \in Lanes |-> <<>>]
    /\ calls = [L \in Lanes |-> 0]
    /\ done = "open"
    /\ ticker = [L \in Lanes |-> "none"]

LeaveIdle ==
    /\ zone = IdleZone
    /\ ev = NoEval

\* No call has been made.
NoCall == [fn |-> "none"]

CallIdle ==
    /\ rl = NoCall
    /\ http = NoCall
    /\ extracted = NoCall

PushIdle ==
    /\ zones = <<>>
    /\ pushpc = "idle"
    /\ selected = <<>>
    /\ pos = 1
    /\ atStart = <<>>
    /\ stepped = <<>>

(***************************************************************************)
(* DDNS manager                                                            *)
(***************************************************************************)

\* The limit the operator configured for a lane.
ConfiguredLimit(L) == IF L = "fetch" THEN fetch_limit ELSE update_limit

\* An off-by-one cap check.
OverLimitOffByOne(L, n) == n > fetch_limit + 1

\* The cap check of a lane's tick loop: "fetch_ops > fetch_limit" in the fetch
\* lane, "update_ops > fetch_limit" in the update lane.
OverLimit(L, n) == IF L = "fetch" THEN n > fetch_limit ELSE n > fetch_limit

\* The shapes of op that reach a lane: FetchRRset is the only sender on the
\* fetch channel; Update sends the zero op on the update channel, and the
\* update worker is written for boxed ops as well.
LaneShapes(L) == IF L = "fetch" THEN {"boxed"} ELSE {"boxed", "bare"}

\* Capacity of an op's response channel; a nil channel never takes a value.
SlotCap(s) == IF s = "boxed" THEN RespCap ELSE 0

\* Ticks are stopped once a queue has grown this long. With a positive limit
\* a worker blocks on a full response channel before its queue gets there.
MaxQueue == MaxOps + RespCap + 2

\* Prepending instead of appending.
EnqueueFront(q, o) == <<o>> \o q

\* append(queue, op)
Enqueue(q, o) == Append(q, o)

LaneInit ==
    /\ mgr = "init"
    /\ fetch_limit \in Limits
    /\ update_limit \in Limits
    /\ opQueue = [L \in Lanes |-> <<>>]
    /\ lane_ops = [L \in Lanes |-> 0]
    /\ pc = [L \in Lanes |-> "select"]
    /\ idx = [L \in Lanes |-> 1]
    /\ shape = [L \in Lanes |-> <<>>]
    /\ respBuf = [L \in Lanes |-> <<>>]
    /\ written = [L \in Lanes |-> <<>>]
    /\ got = [L \in Lanes |-> <<>>]
    /\ calls = [L \in Lanes |-> 0]
    /\ done = "open"
    /\ ticker = [L \in Lanes |-> "none"]
    /\ LeaveIdle
    /\ PushIdle
    /\ CallIdle

\* ddnsmgr up to the start of the two goroutines: a limit of 0 is fatal.
Start ==
    /\ mgr = "init"
    /\ mgr' = IF fetch_limit = 0 \/ update_limit = 0 THEN "fatal" ELSE "running"
    /\ ticker' = IF fetch_limit = 0 \/ update_limit = 0
                   THEN ticker
                   ELSE [L \in Lanes |-> "running"]
    /\ UNCHANGED <<fetch_limit, update_limit, opQueue, lane_ops, pc, idx,
                   shape, respBuf, written, got, calls, done>>
    /\ UNCHANGED <<leaveVars, pushVars, callVars>>

\* case op = <-ddnsfetch / <-ddnsupdate: the op a caller sends is appended to
\* the lane's queue. The new op gets the next number of its lane.
Accept(L) ==
    /\ mgr = "running"
    /\ pc[L] = "select"
    /\ Len(shape["fetch"]) + Len(shape["update"]) < MaxOps
    /\ \E s \in LaneShapes(L) :
          /\ shape' = [shape EXCEPT ![L] = Append(@, s)]
          /\ opQueue' = [opQueue EXCEPT ![L] = Enqueue(@, Len(shape[L]) + 1)]
    /\ respBuf' = [respBuf EXCEPT ![L] = Append(@, 0)]
    /\ written' = [written EXCEPT ![L] = Append(@, 0)]
    /\ got' = [got EXCEPT ![L] = Append(@, FALSE)]
    /\ UNCHANGED <<mgr, fetch_limit, update_limit, lane_ops, pc, idx, calls>>
    /\ UNCHANGED <<done, ticker>>
    /\ UNCHANGED <<leaveVars, pushVars, callVars>>

\* case <-fetch_ticker.C / <-update_ticker.C: the counter is reset and the
\* range loop over the queue starts.
Tick(L) ==
    /\ mgr = "running"
    /\ pc[L] = "select"
    /\ ticker[L] = "running"
    /\ Len(opQueue[L]) < MaxQueue
    /\ lane_ops' = [lane_ops EXCEPT ![L] = 0]
    /\ calls' = [calls EXCEPT ![L] = 0]
    /\ idx' = [idx EXCEPT ![L] = 1]
    /\ pc' = [pc EXCEPT ![L] = IF opQueue[L] = <<>> THEN "select" ELSE "range"]
    /\ UNCHANGED <<mgr, fetch_limit, update_limit, opQueue, shape, respBuf,
                   written, got>>
    /\ UNCHANGED <<done, ticker>>
    /\ UNCHANGED <<leaveVars, pushVars, callVars>>

\* One iteration of the range loop up to the call of RLDdnsFetchRRset or
\* RLDdnsUpdate: the counter is incremented; over the cap the op is appended
\* to the queue and the loop is left; otherwise the op is executed. Both
\* functions dereference op.Signer first, which panics for the zero op.
Iterate(L) ==
    /\ mgr = "running"
    /\ pc[L] = "range"
    /\ LET o == opQueue[L][idx[L]]
           n == lane_ops[L] + 1
       IN  /\ lane_ops' = [lane_ops EXCEPT ![L] = n]
           /\ IF OverLimit(L, n)
              THEN /\ opQueue' = [opQueue EXCEPT ![L] = Enqueue(@, o)]
                   /\ pc' = [pc EXCEPT ![L] = "select"]
                   /\ UNCHANGED <<mgr, calls>>
              ELSE /\ calls' = [calls EXCEPT ![L] = @ + 1]
                   /\ IF shape[L][o] = "bare"
                      THEN /\ mgr' = "panic"
                           /\ UNCHANGED pc
                      ELSE /\ pc' = [pc EXCEPT ![L] = "call"]
                           /\ UNCHANGED mgr
                   /\ UNCHANGED opQueue
    /\ UNCHANGED <<fetch_limit, update_limit, idx, shape, respBuf, written, got>>
    /\ UNCHANGED <<done, ticker>>
    /\ UNCHANGED <<leaveVars, pushVars, callVars>>

\* The first value ("rate-limited") that RLDdnsFetchRRset and RLDdnsUpdate
\* return: every return statement of both is "return false, 0, nil".
RateLimitedReturns == {FALSE}

\* The rest of RLDdnsFetchRRset / RLDdnsUpdate and of the loop body: on every
\* path (pre-requisite error, Exchange error, bad RCODE, success) the function
\* sends one SignerOpResult on op.Response and returns rate-limited. The send
\* waits while the response channel is full. In the retry loop a return of
\* rate-limited = true sleeps and calls the function on the same op again;
\* a return of false leaves the loop and the range loop goes on.
Respond(L) ==
    /\ mgr = "running"
    /\ pc[L] = "call"
    /\ LET o == opQueue[L][idx[L]]
       IN  /\ respBuf[L][o] < SlotCap(shape[L][o])
           /\ respBuf' = [respBuf EXCEPT ![L][o] = @ + 1]
           /\ written' = [written EXCEPT ![L][o] = @ + 1]
    /\ \E rlv \in RateLimitedReturns :
          IF rlv
          THEN /\ UNCHANGED idx
               /\ pc' = [pc EXCEPT ![L] = "call"]
          ELSE /\ idx' = [idx EXCEPT ![L] = @ + 1]
               /\ pc' = [pc EXCEPT ![L] = IF idx[L] + 1 > Len(opQueue[L])
                                          THEN "select" ELSE "range"]
    /\ UNCHANGED <<mgr, fetch_limit, update_limit, opQueue, lane_ops, shape,
                   got, calls>>
    /\ UNCHANGED <<done, ticker>>
    /\ UNCHANGED <<leaveVars, pushVars, callVars>>

\* resp := <-op.Response in FetchRRset / Update: the caller of op o takes one
\* result from the op's response channel, once.
Receive(L, o) ==
    /\ mgr = "running"
    /\ o \in 1 .. Len(shape[L])
    /\ ~got[L][o]
    /\ respBuf[L][o] > 0
    /\ respBuf' = [respBuf EXCEPT ![L][o] = @ - 1]
    /\ got' = [got EXCEPT ![L][o] = TRUE]
    /\ UNCHANGED <<mgr, fetch_limit, update_limit, opQueue, lane_ops, pc, idx,
                   shape, written, calls>>
    /\ UNCHANGED <<done, ticker>>
    /\ UNCHANGED <<leaveVars, pushVars, callVars>>

\* The owner of the done channel gives the shutdown signal: the channel is
\* closed, so that both workers can receive from it.
Shutdown ==
    /\ mgr = "running"
    /\ done = "open"
    /\ done' = "closed"
    /\ UNCHANGED <<mgr, fetch_limit, update_limit, opQueue, lane_ops, pc, idx,
                   shape, respBuf, written, got, calls, ticker>>
    /\ UNCHANGED <<leaveVars, pushVars, callVars>>

\* case <-done: the lane's ticker is stopped and a line is logged. The case
\* has no return and no break out of the for loop: the worker is back at its
\* select.
HandleDone(L) ==
    /\ mgr = "running"
    /\ pc[L] = "select"
    /\ done = "closed"
    /\ ticker' = [ticker EXCEPT ![L] = "stopped"]
    /\ pc' = [pc EXCEPT ![L] = "select"]
    /\ UNCHANGED <<mgr, fetch_limit, update_limit, opQueue, lane_ops, idx,
                   shape, respBuf, written, got, calls, done>>
    /\ UNCHANGED <<leaveVars, pushVars, callVars>>

LaneNext ==
    \/ Start
    \/ Shutdown
    \/ \E L \in Lanes : HandleDone(L)
    \/ \E L \in Lanes : Accept(L)
    \/ \E L \in Lanes : Tick(L)
    \/ \E L \in Lanes : Iterate(L)
    \/ \E L \in Lanes : Respond(L)
    \/ \E L \in Lanes : \E o \in 1 .. MaxOps : Receive(L, o)

LaneSpec == LaneInit /\ [][LaneNext]_vars

\* The scheduling of the manager: a started goroutine runs, a ticker fires
\* every minute, a send on a channel with room completes, and a caller that
\* has sent its op goes on to receive. Nothing makes a caller send an op.
LaneFairSpec ==
    /\ LaneSpec
    /\ WF_vars(Start)
    /\ \A L \in Lanes :
          /\ WF_vars(Tick(L))
          /\ WF_vars(HandleDone(L))
          /\ WF_vars(Iterate(L))
          /\ WF_vars(Respond(L))
          /\ \A o \in 1 .. MaxOps : WF_vars(Receive(L, o))

\* Op o of lane L has been accepted from the lane's inbound channel.
Accepted(L, o) == o <= Len(shape[L])

\* A result has been written to the response slot of op o of lane L.
Written(L, o) == Accepted(L, o) /\ written[L][o] > 0

\* Both limits are configured as the manual requires.
ValidLimits == fetch_limit > 0 /\ update_limit > 0

(***************************************************************************)
(* Claims about the DDNS manager                                           *)
(***************************************************************************)

\* C1: between two consecutive ticks of the fetch lane, the number of fetch
\* ops executed (calls of RLDdnsFetchRRset) never exceeds
\* signers.ddns.limits.fetch (and none is executed under a limit below 1).
C1_FetchCallsWithinLimit ==
    calls["fetch"] <= (IF fetch_limit > 0 THEN fetch_limit ELSE 0)

\* The fetch lane has executed as many ops as the limit allows in this tick
\* and has met the cap with one more op in its queue.
C1_Witness ==
    /\ fetch_limit > 0
    /\ calls["fetch"] = fetch_limit
    /\ lane_ops["fetch"] > fetch_limit

\* C2: between two consecutive ticks of the update lane, the number of update
\* ops executed (calls of RLDdnsUpdate) never exceeds
\* signers.ddns.limits.update, whatever signers.ddns.limits.fetch is.
C2_UpdateCallsWithinLimit ==
    update_limit > 0 => calls["update"] <= update_limit

\* C3: no op ever has a second result written to its response slot (it is
\* executed once and then released).
C3_AtMostOneResultPerOp ==
    \A L \in Lanes : \A o \in 1 .. Len(written[L]) : written[L][o] <= 1

\* C4: with both limits valid and the tickers firing (the process has not
\* died and no shutdown has been signalled), every op accepted into a lane's queue is eventually executed and
\* has its result written.
C4_AcceptedOpEventuallyWritten ==
    \A L \in Lanes : \A o \in 1 .. MaxOps :
        (ValidLimits /\ Accepted(L, o))
            ~> (Written(L, o) \/ mgr = "panic" \/ done = "closed")

\* With a positive fetch limit no queue grows to the length at which the
\* model stops the tickers.
QueueBelowMax ==
    fetch_limit > 0 => \A L \in Lanes : Len(opQueue[L]) < MaxQueue

\* C5: within a lane, an op has no result written before every op accepted
\* before it has one.
C5_ResultsInEnqueueOrder ==
    \A L \in Lanes : \A o1, o2 \in 1 .. Len(written[L]) :
        (o1 < o2 /\ written[L][o2] > 0) => written[L][o1] > 0

\* Two ops of one lane both have their results written.
C5_Witness ==
    \E L \in Lanes : Written(L, 1) /\ Written(L, 2)

\* The worker of lane L has left its for loop.
Exited(L) == pc[L] = "exited"

\* C11: with valid limits, once the shutdown signal is given, each lane worker stops its ticker
\* and leaves its loop (unless the process has died of a panic before).
C11_WorkersTerminateOnDone ==
    (ValidLimits /\ done = "closed") ~>
        (mgr = "panic" \/ \A L \in Lanes : ticker[L] = "stopped" /\ Exited(L))

\* C16: the manager gets past its start only with both limits above zero, and
\* with any other value it has ended the process there.
C16_StartsOnlyWithPositiveLimits ==
    mgr # "init" =>
        IF ValidLimits THEN mgr \in {"running", "panic"} ELSE mgr = "fatal"

\* Op o of the update lane is the op of a call of RLDdnsUpdater.Update: the
\* zero SignerOp, sent on UpdateCh.
UpdateCall(o) == Accepted("update", o) /\ shape["update"][o] = "bare"

\* C12: with valid limits and the update lane ticking (no shutdown has been
\* signalled), every call of Update
\* whose op the lane has taken eventually receives a result and returns.
C12_UpdateCallReturns ==
    \A o \in 1 .. MaxOps :
        (ValidLimits /\ UpdateCall(o))
            ~> ((Accepted("update", o) /\ got["update"][o]) \/ done = "closed")

\* The ops of lane L that have been accepted and not executed, in the order
\* of their acceptance.
Unexecuted(L) ==
    SelectSeq([o \in 1 .. Len(shape[L]) |-> o], LAMBDA o : written[L][o] = 0)

\* C19: with valid limits, whenever a lane worker is at its select (no tick
\* handler running), the lane's queue holds exactly the accepted ops not yet executed, each
\* once and in acceptance order.
C19_QueueHoldsUnexecutedOps ==
    \A L \in Lanes :
        (ValidLimits /\ mgr = "running" /\ pc[L] = "select")
            => opQueue[L] = Unexecuted(L)

\* A step of lane L in which the function called for an op has returned
\* rate-limited = true: the worker has written a result and is in the same
\* call again.
RetryStep(L) ==
    /\ pc[L] = "call"
    /\ pc'[L] = "call"
    /\ written'[L] # written[L]

\* C27: a lane worker whose call reports rate-limited calls the function again
\* on the same op: the position in the queue, the queue and the lane's counter
\* are as they were. (No return statement of RLDdnsFetchRRset or RLDdnsUpdate
\* reports rate-limited, so no behaviour of the manager has such a step.)
C27_RetryKeepsOpAndCounter ==
    [][\A L \in Lanes :
          RetryStep(L) => /\ idx'[L] = idx[L]
                          /\ opQueue'[L] = opQueue[L]
                          /\ lane_ops'[L] = lane_ops[L]
                          /\ calls'[L] = calls[L]]_vars

\* The worker of lane L is in the send of a result on the response channel of
\* the op it is executing, the channel is full, and the op's caller has taken
\* the one result it receives: nothing will ever make room, so the worker
\* never returns to its select.
StuckInSend(L) ==
    /\ mgr = "running"
    /\ pc[L] = "call"
    /\ LET o == opQueue[L][idx[L]]
       IN  /\ respBuf[L][o] >= SlotCap(shape[L][o])
           /\ got[L][o]

\* The caller of op o of lane L is in "resp := <-op.Response" on a response
\* slot that takes no value: the nil channel of the zero op.
WaitsOnDeadSlot(L, o) ==
    /\ Accepted(L, o)
    /\ ~got[L][o]
    /\ SlotCap(shape[L][o]) = 0

\* The worker half of C31: no lane worker is stuck in the send of a result,
\* and no execution of an op has ended the process before the write.
C31_WorkerCompletesWrite ==
    /\ mgr # "panic"
    /\ \A L \in Lanes : ~StuckInSend(L)

\* The caller half of C31: no caller waits on a slot that cannot be written.
C31_NoCallerOnDeadSlot ==
    ValidLimits =>
        \A L \in Lanes : \A o \in 1 .. Len(shape[L]) : ~WaitsOnDeadSlot(L, o)

\* No lane worker is stuck in a send while the process is alive.
C31_NoWorkerStuckInSend ==
    ValidLimits => \A L \in Lanes : ~StuckInSend(L)

\* C31: response delivery is deadlock-free: in every reachable state, a lane
\* worker that has started executing an op is able to complete the write to
\* the op's response slot and return to its select, and no caller waits on a
\* response slot that no worker can ever write to (with both limits configured
\* as the manual requires).
C31_ResponseDeliveryDeadlockFree ==
    ValidLimits => /\ C31_WorkerCompletesWrite
                   /\ C31_NoCallerOnDeadSlot

(***************************************************************************)
(* LEAVE transitions                                                       *)
(*                                                                         *)
(* A transition function is given a zone and reads the store and the       *)
(* signers. What it reads is its input e:                                  *)
(*   e.storeHas   the signers GetSignerByName finds                        *)
(*   e.dbFault    the statement call that fails: "none", "prepare",        *)
(*                "query" or "scan"                                        *)
(*   e.nsRows     signer -> the ns column of its zone_nses rows            *)
(*   e.keyRows    signer -> the dnskey column of its zone_dnskeys rows     *)
(*   e.qerr       the signers whose Exchange returns an error              *)
(*   e.nsAns      signer -> the NS names in its answer section, in order   *)
(*   e.keyAns     signer -> the DNSKEYs in its answer section, in order    *)
(*   e.soaAns     signer -> the number of SOA RRs in its answer section    *)
(*   e.uerr       the signers whose updater.Update returns an error        *)
(*   e.order      the order in which range walks z.SGroup.SignerMap        *)
(*   e.order2     the order of a second range over the same map            *)
(* and its outcome r:                                                      *)
(*   r.exit    "return", "fatal" (log.Fatalf) or "panic" (nil SGroup)      *)
(*   r.ret     the value returned                                          *)
(*   r.set     whether z.SetStopReason was called, and r.reason with what  *)
(*   r.trace   the store lookups, queries and updates made, in order       *)
(***************************************************************************)

\* The leaving signer that LEAVE_ADD_CSYNC names in its source.
Hardcoded == "signer2.catch22.se."

Names == {"s1.", "s3.", Hardcoded}

NSNames == {"ns1.", "ns2."}

\* A key signing key and a zone signing key.
Keys ==
    { [Flags |-> 257, Protocol |-> 3, Algorithm |-> 13, PublicKey |-> "kskA"],
      [Flags |-> 256, Protocol |-> 3, Algorithm |-> 13, PublicKey |-> "zskB"] }

\* fmt.Sprintf("%d-%d-%s", dnskey.Protocol, dnskey.Algorithm, dnskey.PublicKey)
KeyIdentity(k) == <<k.Protocol, "-", k.Algorithm, "-", k.PublicKey>>

KeyIds == {KeyIdentity(k) : k \in Keys}

\* The sequences that list every element of S once.
Orders(S) == {sq \in [1 .. Cardinality(S) -> S] : {sq[i] : i \in 1 .. Len(sq)} = S}

\* The sequences without repetition over S.
SubSeqs(S) == UNION {Orders(T) : T \in SUBSET S}

Range(sq) == {sq[i] : i \in 1 .. Len(sq)}

\* The SOA serial a signer answers with.
Serial(s) == <<"serial of", s>>

\* Events of a trace.
Lookup(name) == [op |-> "lookup", name |-> name]
Query(s, t) == [op |-> "query", to |-> s, rrtype |-> t]
Update(s, ins, rem) == [op |-> "update", to |-> s, inserts |-> ins, removes |-> rem]

\* Outcomes.
RetTrue(trace) ==
    [exit |-> "return", ret |-> TRUE, set |-> FALSE, reason |-> <<>>, trace |-> trace]
RetFalse(trace) ==
    [exit |-> "return", ret |-> FALSE, set |-> FALSE, reason |-> <<>>, trace |-> trace]
\* z.SetStopReason(reason); return false
StopFalse(reason, trace) ==
    [exit |-> "return", ret |-> FALSE, set |-> TRUE, reason |-> reason, trace |-> trace]
\* log.Fatalf: the process exits.
Fatal(trace) ==
    [exit |-> "fatal", ret |-> FALSE, set |-> FALSE, reason |-> <<>>, trace |-> trace]
\* z.SGroup.SignerMap with a nil SGroup.
Panic(trace) ==
    [exit |-> "panic", ret |-> FALSE, set |-> FALSE, reason |-> <<>>, trace |-> trace]

\* The outcome of a loop that was left by a return, or the trace so far of one
\* that ran to its end.
Left(r) == [left |-> TRUE, r |-> r]
Ran(trace) == [left |-> FALSE, trace |-> trace]

\* Prepare, Query and the rows.Next()/Scan loop over a statement's rows: the
\* statement fails at Prepare or at Query, or Scan fails on the first row.
RowsFail(e, rows) ==
    \/ e.dbFault \in {"prepare", "query"}
    \/ e.dbFault = "scan" /\ rows # {}

\* No RR to remove, whatever the rows.
NoNsRRs(rows) == {}

\* The NS RRs to remove, one for each row.
NsRRs(rows) == {[rrtype |-> "NS", ns |-> n] : n \in rows}

\* The first element of a sequence that is in a set (the sequence has one).
FirstIn(sq, S) == sq[CHOOSE i \in 1 .. Len(sq) :
                        /\ sq[i] \in S
                        /\ \A j \in 1 .. (i - 1) : sq[j] \notin S]

\* The zone-key bit alone.
IsZoneKey(k) == (k.Flags \div 256) % 2 = 1

\* dnskey.Flags & 0x101 == 257: the zone-key bit (256) and the SEP bit (1).
IsKSK(k) == (k.Flags \div 256) % 2 = 1 /\ k.Flags % 2 = 1

\* dnskey.ToDS(dns.SHA256).ToCDS()
ToCDS(k) == [rrtype |-> "CDS", DigestType |-> "SHA256", Digest |-> <<"sha256 of", k>>]

\* dnskey.ToCDNSKEY()
ToCDNSKEY(k) ==
    [rrtype |-> "CDNSKEY", Flags |-> k.Flags, Protocol |-> k.Protocol,
     Algorithm |-> k.Algorithm, PublicKey |-> k.PublicKey]

\* The CSYNC RR built from the SOA a signer answered with.
CsyncRR(s) ==
    [rrtype |-> "CSYNC", Ttl |-> 300, Serial |-> Serial(s), Flags |-> 3,
     TypeBitMap |-> <<"A", "NS", "AAAA">>]

\* The CDS and CDNSKEY RRs appended for the DNSKEYs of one answer section.
RECURSIVE CdsOf(_)
CdsOf(ans) ==
    IF ans = <<>> THEN <<>>
    ELSE (IF IsKSK(Head(ans)) THEN <<ToCDS(Head(ans))>> ELSE <<>>) \o CdsOf(Tail(ans))

RECURSIVE CdnskeysOf(_)
CdnskeysOf(ans) ==
    IF ans = <<>> THEN <<>>
    ELSE (IF IsKSK(Head(ans)) THEN <<ToCDNSKEY(Head(ans))>> ELSE <<>>)
         \o CdnskeysOf(Tail(ans))

---------------------------------------------------------------------------
\* LEAVE_SYNC_NSES

LeaveSyncNsesPreCondition(z, e) == RetTrue(<<>>)

\* The loop going on to the next signer whatever updater.Update returns.
RECURSIVE SyncNsesLoopOn(_, _, _, _)
SyncNsesLoopOn(rest, e, nsrem, trace) ==
    IF rest = <<>> THEN Ran(trace)
    ELSE SyncNsesLoopOn(Tail(rest), e, nsrem,
                        Append(trace, Update(Head(rest), <<>>, nsrem)))

\* for _, signer := range z.SGroup.SignerMap { updater.Update(...) }
RECURSIVE SyncNsesLoop(_, _, _, _)
SyncNsesLoop(rest, e, nsrem, trace) ==
    IF rest = <<>> THEN Ran(trace)
    ELSE LET s == Head(rest)
             t == Append(trace, Update(s, <<>>, nsrem))
         IN  IF s \in e.uerr
             THEN Left(StopFalse(<<"Unable to remove NSes from", s>>, t))
             ELSE SyncNsesLoop(Tail(rest), e, nsrem, t)

LeaveSyncNsesAction(z, e) ==
    IF z.ZoneType = "debug" THEN RetTrue(<<>>)
    ELSE IF ~z.SGroup.present THEN Fatal(<<>>)
    ELSE IF z.FSMSigner = "" THEN Fatal(<<>>)
    ELSE LET name == z.FSMSigner
             t1 == <<Lookup(name)>>
         IN  IF name \notin e.storeHas
             THEN StopFalse(<<"Unable to get leaving signer", name>>, t1)
             ELSE IF RowsFail(e, e.nsRows[name]) THEN RetFalse(t1)
             ELSE LET nsrem == NsRRs(e.nsRows[name])
                      loop == SyncNsesLoop(e.order, e, nsrem, t1)
                  IN  IF loop.left THEN loop.r
                      ELSE LET t2 == Append(loop.trace, Update(name, <<>>, nsrem))
                           IN  IF name \in e.uerr
                               THEN StopFalse(<<"Unable to remove NSes from", name>>, t2)
                               ELSE RetTrue(t2)

---------------------------------------------------------------------------
\* LEAVE_ADD_CDS

\* The loop without its test for the leaving signer.
RECURSIVE CdsPreLoopAll(_, _, _, _, _)
CdsPreLoopAll(rest, leaving, e, dnskeys, trace) ==
    IF rest = <<>> THEN Ran(trace)
    ELSE LET s == Head(rest)
             t == Append(trace, Query(s, "DNSKEY"))
             stale == {k \in Range(e.keyAns[s]) : KeyIdentity(k) \in dnskeys}
         IN  IF s \in e.qerr
             THEN Left(StopFalse(<<"Unable to fetch DNSKEYs from", s>>, t))
             ELSE IF stale # {}
             THEN Left(StopFalse(<<"DNSKEY still exists in signer",
                                   FirstIn(e.keyAns[s], stale).PublicKey, s>>, t))
             ELSE CdsPreLoopAll(Tail(rest), leaving, e, dnskeys, t)

\* The loop of the precondition over z.SGroup.SignerMap.
RECURSIVE CdsPreLoop(_, _, _, _, _)
CdsPreLoop(rest, leaving, e, dnskeys, trace) ==
    IF rest = <<>> THEN Ran(trace)
    ELSE LET s == Head(rest)
             t == Append(trace, Query(s, "DNSKEY"))
             stale == {k \in Range(e.keyAns[s]) : KeyIdentity(k) \in dnskeys}
         IN  IF s = leaving THEN CdsPreLoop(Tail(rest), leaving, e, dnskeys, trace)
             ELSE IF s \in e.qerr
             THEN Left(StopFalse(<<"Unable to fetch DNSKEYs from", s>>, t))
             ELSE IF stale # {}
             THEN Left(StopFalse(<<"DNSKEY still exists in signer",
                                   FirstIn(e.keyAns[s], stale).PublicKey, s>>, t))
             ELSE CdsPreLoop(Tail(rest), leaving, e, dnskeys, t)

LeaveAddCDSPreCondition(z, e) ==
    IF z.ZoneType = "debug" THEN RetTrue(<<>>)
    ELSE IF ~z.SGroup.present THEN Fatal(<<>>)
    ELSE IF z.FSMSigner = "" THEN Fatal(<<>>)
    ELSE LET name == z.FSMSigner
             t1 == <<Lookup(name)>>
         IN  IF name \notin e.storeHas
             THEN StopFalse(<<"Unable to get leaving signer", name>>, t1)
             ELSE IF RowsFail(e, e.keyRows[name]) THEN RetFalse(t1)
             ELSE LET loop == CdsPreLoop(e.order, name, e, e.keyRows[name], t1)
                  IN  IF loop.left THEN loop.r ELSE RetTrue(loop.trace)

\* The first loop of the action: the DNSKEY queries and the CDS/CDNSKEY RRs.
RECURSIVE CdsFetchLoop(_, _, _, _, _, _)
CdsFetchLoop(rest, leaving, e, cdses, cdnskeys, trace) ==
    IF rest = <<>> THEN [left |-> FALSE, trace |-> trace, cdses |-> cdses,
                         cdnskeys |-> cdnskeys]
    ELSE LET s == Head(rest)
             t == Append(trace, Query(s, "DNSKEY"))
         IN  IF s = leaving
             THEN CdsFetchLoop(Tail(rest), leaving, e, cdses, cdnskeys, trace)
             ELSE IF s \in e.qerr
             THEN Left(StopFalse(<<"Unable to fetch DNSKEYs from", s>>, t))
             ELSE CdsFetchLoop(Tail(rest), leaving, e,
                               cdses \o CdsOf(e.keyAns[s]),
                               cdnskeys \o CdnskeysOf(e.keyAns[s]), t)

\* The second loop of the action: the updates.
RECURSIVE CdsUpdateLoop(_, _, _, _, _)
CdsUpdateLoop(rest, leaving, e, rrsets, trace) ==
    IF rest = <<>> THEN Ran(trace)
    ELSE LET s == Head(rest)
             t == Append(trace, Update(s, rrsets, {}))
         IN  IF s = leaving THEN CdsUpdateLoop(Tail(rest), leaving, e, rrsets, trace)
             ELSE IF s \in e.uerr
             THEN Left(StopFalse(<<"Unable to update with CDS/CDNSKEY record sets", s>>, t))
             ELSE CdsUpdateLoop(Tail(rest), leaving, e, rrsets, t)

LeaveAddCDSAction(z, e) ==
    IF z.ZoneType = "debug" THEN RetTrue(<<>>)
    ELSE IF z.FSMSigner = "" THEN Fatal(<<>>)
    ELSE IF ~z.SGroup.present THEN Panic(<<>>)
    ELSE LET fetch == CdsFetchLoop(e.order, z.FSMSigner, e, <<>>, <<>>, <<>>)
         IN  IF fetch.left THEN fetch.r
             ELSE LET upd == CdsUpdateLoop(e.order2, z.FSMSigner, e,
                                           <<fetch.cdses, fetch.cdnskeys>>, fetch.trace)
                  IN  IF upd.left THEN upd.r ELSE RetTrue(upd.trace)

---------------------------------------------------------------------------
\* LEAVE_ADD_CSYNC

\* The NS query to one signer and the comparison of its answer with nses.
CsyncPreStale(s, e, nses) == \E i \in 1 .. Len(e.nsAns[s]) : e.nsAns[s][i] \in nses

RECURSIVE CsyncPreLoop(_, _, _, _)
CsyncPreLoop(rest, e, nses, trace) ==
    IF rest = <<>> THEN Ran(trace)
    ELSE LET s == Head(rest)
             t == Append(trace, Query(s, "NS"))
         IN  IF s \in e.qerr THEN Left(RetFalse(t))
             ELSE IF CsyncPreStale(s, e, nses) THEN Left(RetFalse(t))
             ELSE CsyncPreLoop(Tail(rest), e, nses, t)

LeaveAddCsyncPreCondition(z, e) ==
    LET name == Hardcoded
        t1 == <<Lookup(name)>>
    IN  IF name \notin e.storeHas THEN RetFalse(t1)
        ELSE IF RowsFail(e, e.nsRows[name]) THEN RetFalse(t1)
        ELSE IF ~z.SGroup.present THEN Panic(t1)
        ELSE LET loop == CsyncPreLoop(e.order, e, e.nsRows[name], t1)
             IN  IF loop.left THEN loop.r
                 ELSE LET t2 == Append(loop.trace, Query(name, "NS"))
                      IN  IF name \in e.qerr THEN RetFalse(t2)
                          ELSE IF CsyncPreStale(name, e, e.nsRows[name]) THEN RetFalse(t2)
                          ELSE RetTrue(t2)

\* The SOA query to one signer and the update with a CSYNC RR for each SOA RR
\* of the answer: the trace after it and whether the function returned false.
CsyncOne(s, e, trace) ==
    LET t == Append(trace, Query(s, "SOA"))
        u == Append(t, Update(s, << <<CsyncRR(s)>> >>, {}))
    IN  IF s \in e.qerr THEN Left(RetFalse(t))
        ELSE IF e.soaAns[s] = 0 THEN Ran(t)
        ELSE IF s \in e.uerr THEN Left(RetFalse(u))
        ELSE Ran(u)

RECURSIVE CsyncLoop(_, _, _)
CsyncLoop(rest, e, trace) ==
    IF rest = <<>> THEN Ran(trace)
    ELSE LET one == CsyncOne(Head(rest), e, trace)
         IN  IF one.left THEN one ELSE CsyncLoop(Tail(rest), e, one.trace)

LeaveAddCsyncAction(z, e) ==
    LET name == Hardcoded
        t1 == <<Lookup(name)>>
    IN  IF name \notin e.storeHas THEN RetFalse(t1)
        ELSE IF ~z.SGroup.present THEN Panic(t1)
        ELSE LET loop == CsyncLoop(e.order, e, t1)
             IN  IF loop.left THEN loop.r
                 ELSE LET last == CsyncOne(name, e, loop.trace)
                      IN  IF last.left THEN last.r ELSE RetTrue(last.trace)

---------------------------------------------------------------------------
\* The inputs tried for each function, and the evaluations.

DefaultEnv ==
    [storeHas |-> {}, dbFault |-> "none",
     nsRows |-> [s \in Names |-> {}], keyRows |-> [s \in Names |-> {}],
     qerr |-> {}, nsAns |-> [s \in Names |-> <<>>],
     keyAns |-> [s \in Names |-> <<>>], soaAns |-> [s \in Names |-> 0],
     uerr |-> {}, order |-> <<>>, order2 |-> <<>>]

\* What the store has for the signer a function looks up and its rows (with
\* values in V): no such signer; a statement that fails; or the rows.
StoreChoices(V) ==
    {[has |-> FALSE, fault |-> "none", rows |-> {}]}
    \cup {[has |-> TRUE, fault |-> f, rows |-> {}] : f \in {"prepare", "query"}}
    \cup {[has |-> TRUE, fault |-> "scan", rows |-> R] : R \in (SUBSET V) \ {{}}}
    \cup {[has |-> TRUE, fault |-> "none", rows |-> R] : R \in SUBSET V}

\* The functions over the signers with values in V that are d outside R.
PerSigner(R, V, d) == {f \in [Names -> V] : \A s \in Names \ R : f[s] = d}

\* The zones the functions are tried on.
LeaveZones ==
    {[ZoneType |-> t, FSM |-> "REMOVE-SIGNER", State |-> "leaving",
      FSMSigner |-> n, FSMStatus |-> "", StopReason |-> sr, SGroup |-> g] :
        t \in {"normal", "debug"},
        n \in Names \cup {""},
        sr \in {<<>>, <<"reason of an earlier step">>},
        g \in {[present |-> FALSE, SignerMap |-> {}]}
              \cup {[present |-> TRUE, SignerMap |-> M] : M \in SUBSET Names}}

LeaveInit ==
    /\ zone \in LeaveZones
    /\ ev = NoEval
    /\ LaneIdle
    /\ PushIdle
    /\ CallIdle

\* z.SetStopReason(reason): the reason is recorded on the zone.
SetStopReason(z, reason) == [z EXCEPT !.StopReason = reason]

\* An evaluation that also moves the zone to another state when the function
\* returns true.
EvaluatedMovingOn(fn, e, r) ==
    /\ ev' = [fn |-> fn, in |-> e, exit |-> r.exit, ret |-> r.ret, set |-> r.set,
              reason |-> r.reason, trace |-> r.trace]
    /\ zone' = [zone EXCEPT !.StopReason = IF r.set THEN r.reason ELSE @,
                            !.State = IF r.ret THEN "moved" ELSE @]
    /\ UNCHANGED <<laneVars, pushVars, callVars>>

\* The function has returned (or the process has died): the evaluation is
\* recorded and the zone has the stop reason the function set.
Evaluated(fn, e, r) ==
    /\ ev' = [fn |-> fn, in |-> e, exit |-> r.exit, ret |-> r.ret, set |-> r.set,
              reason |-> r.reason, trace |-> r.trace]
    /\ zone' = IF r.set THEN SetStopReason(zone, r.reason) ELSE zone
    /\ UNCHANGED <<laneVars, pushVars, callVars>>

\* Whether a function of LEAVE_SYNC_NSES or LEAVE_ADD_CDS gets past its checks
\* of the zone, to the store and the signers.
PastChecks(z) == z.ZoneType # "debug" /\ z.SGroup.present /\ z.FSMSigner # ""

EvalLeaveSyncNsesPreCondition ==
    /\ ev.fn = "none"
    /\ Evaluated("LeaveSyncNsesPreCondition", DefaultEnv,
                 LeaveSyncNsesPreCondition(zone, DefaultEnv))

EvalLeaveSyncNsesAction ==
    /\ ev.fn = "none"
    /\ LET name == zone.FSMSigner
           M == zone.SGroup.SignerMap
       IN  \E e \in IF ~PastChecks(zone) THEN {DefaultEnv}
                    ELSE {[DefaultEnv EXCEPT
                             !.storeHas = IF st.has THEN {name} ELSE {},
                             !.dbFault = st.fault,
                             !.nsRows = [s \in Names |-> IF s = name THEN st.rows ELSE {}],
                             !.uerr = IF st.has /\ st.fault = "none" THEN u ELSE {},
                             !.order = o] :
                            st \in StoreChoices(NSNames),
                            u \in SUBSET (M \cup {name}),
                            o \in Orders(M)} :
              Evaluated("LeaveSyncNsesAction", e, LeaveSyncNsesAction(zone, e))

EvalLeaveAddCDSPreCondition ==
    /\ ev.fn = "none"
    /\ LET name == zone.FSMSigner
           M == zone.SGroup.SignerMap
           R == M \ {name}
       IN  \E e \in IF ~PastChecks(zone) THEN {DefaultEnv}
                    ELSE {[DefaultEnv EXCEPT
                             !.storeHas = IF st.has THEN {name} ELSE {},
                             !.dbFault = st.fault,
                             !.keyRows = [s \in Names |-> IF s = name THEN st.rows ELSE {}],
                             !.qerr = IF st.has /\ st.fault = "none" THEN q ELSE {},
                             !.keyAns = IF st.has /\ st.fault = "none"
                                        THEN [s \in Names |-> IF s \in q THEN <<>> ELSE a[s]]
                                        ELSE DefaultEnv.keyAns,
                             !.order = o] :
                            st \in StoreChoices(KeyIds),
                            q \in SUBSET R,
                            a \in PerSigner(R, SubSeqs(Keys), <<>>),
                            o \in Orders(M)} :
              Evaluated("LeaveAddCDSPreCondition", e, LeaveAddCDSPreCondition(zone, e))

EvalLeaveAddCDSAction ==
    /\ ev.fn = "none"
    /\ LET M == zone.SGroup.SignerMap
           R == M \ {zone.FSMSigner}
       IN  \E e \in IF ~PastChecks(zone) THEN {DefaultEnv}
                    ELSE {[DefaultEnv EXCEPT
                             !.qerr = q,
                             !.keyAns = [s \in Names |-> IF s \in q THEN <<>> ELSE a[s]],
                             !.uerr = u,
                             !.order = o,
                             !.order2 = o2] :
                            q \in SUBSET R,
                            a \in PerSigner(R, SubSeqs(Keys), <<>>),
                            u \in SUBSET R,
                            o \in Orders(M),
                            o2 \in Orders(M)} :
              Evaluated("LeaveAddCDSAction", e, LeaveAddCDSAction(zone, e))

EvalLeaveAddCsyncPreCondition ==
    /\ ev.fn = "none"
    /\ LET M == zone.SGroup.SignerMap
           R == M \cup {Hardcoded}
           \* the store also has the signer the zone names, with its rows
           named == {zone.FSMSigner} \cap (Names \ {Hardcoded})
       IN  \E e \in {[DefaultEnv EXCEPT
                        !.storeHas = IF st.has THEN {Hardcoded} \cup named ELSE {},
                        !.dbFault = st.fault,
                        !.nsRows = [s \in Names |-> IF s = Hardcoded THEN st.rows
                                                   ELSE IF s \in named THEN fr ELSE {}],
                        !.qerr = IF st.has /\ st.fault = "none" THEN q ELSE {},
                        !.nsAns = IF st.has /\ st.fault = "none"
                                  THEN [s \in Names |-> IF s \in q THEN <<>> ELSE a[s]]
                                  ELSE DefaultEnv.nsAns,
                        !.order = o] :
                       st \in StoreChoices(NSNames),
                       fr \in IF named = {} THEN {{}} ELSE SUBSET NSNames,
                       q \in SUBSET R,
                       a \in PerSigner(R, SubSeqs(NSNames), <<>>),
                       o \in Orders(M)} :
              Evaluated("LeaveAddCsyncPreCondition", e, LeaveAddCsyncPreCondition(zone, e))

EvalLeaveAddCsyncAction ==
    /\ ev.fn = "none"
    /\ LET M == zone.SGroup.SignerMap
           R == M \cup {Hardcoded}
       IN  \E e \in {[DefaultEnv EXCEPT
                        !.storeHas = IF has THEN {Hardcoded} ELSE {},
                        !.qerr = IF has THEN q ELSE {},
                        !.soaAns = IF has
                                   THEN [s \in Names |-> IF s \in q THEN 0 ELSE a[s]]
                                   ELSE DefaultEnv.soaAns,
                        !.uerr = IF has THEN u ELSE {},
                        !.order = o] :
                       has \in BOOLEAN,
                       q \in SUBSET R,
                       a \in PerSigner(R, {0, 1}, 0),
                       u \in SUBSET R,
                       o \in Orders(M)} :
              Evaluated("LeaveAddCsyncAction", e, LeaveAddCsyncAction(zone, e))

LeaveNext ==
    \/ EvalLeaveSyncNsesPreCondition
    \/ EvalLeaveSyncNsesAction
    \/ EvalLeaveAddCDSPreCondition
    \/ EvalLeaveAddCDSAction
    \/ EvalLeaveAddCsyncPreCondition
    \/ EvalLeaveAddCsyncAction

LeaveSpec == LeaveInit /\ [][LeaveNext]_vars

(***************************************************************************)
(* Claims about the LEAVE transitions                                      *)
(***************************************************************************)

\* A transition function has been evaluated.
Evald == ev.fn # "none"

\* The queries and updates sent to signers in the evaluation.
Traffic == {i \in 1 .. Len(ev.trace) : ev.trace[i].op \in {"query", "update"}}

\* The zone is in a signer group and names its leaving signer.
WellFormed == zone.SGroup.present /\ zone.FSMSigner # ""

\* Every store lookup of the evaluation found its signer, and no statement
\* failed.
StoreFine ==
    /\ ev.in.dbFault = "none"
    /\ \A i \in 1 .. Len(ev.trace) :
          ev.trace[i].op = "lookup" => ev.trace[i].name \in ev.in.storeHas

\* The functions that check z.FSMSigner.
ChecksFSMSigner ==
    {"LeaveSyncNsesAction", "LeaveAddCDSPreCondition", "LeaveAddCDSAction"}

\* C6: for a zone of ZoneType debug (in a signer group, FSMSigner set, the
\* store answering) every LEAVE precondition and action returns true, whether
\* the signers can be reached or not, and sends no query and no update.
C6_DebugZoneShortCircuits ==
    (Evald /\ zone.ZoneType = "debug" /\ WellFormed /\ StoreFine) =>
        (ev.exit = "return" /\ ev.ret /\ Traffic = {})

\* C7: when a function that needs the leaving signer is evaluated for a
\* non-debug zone (with a signer group) whose FSMSigner is empty, it returns
\* to its caller, with the zone marked FSMStatus = stop and a reason recorded.
C7_EmptyFSMSignerStopsZone ==
    (Evald /\ ev.fn \in ChecksFSMSigner /\ zone.ZoneType # "debug"
           /\ zone.SGroup.present /\ zone.FSMSigner = "") =>
        (ev.exit = "return" /\ zone.FSMStatus = "stop" /\ ev.set)

\* C8: the signer a LEAVE function looks up in the store (and then queries
\* and updates as the leaving signer) is the one named by the zone's FSMSigner.
C8_LeavingSignerIsFSMSigner ==
    (Evald /\ WellFormed) => \A i \in 1 .. Len(ev.trace) :
                 ev.trace[i].op = "lookup" => ev.trace[i].name = zone.FSMSigner

\* C9: a LEAVE function that returns false has recorded a StopReason on the
\* zone in that evaluation.
C9_FalseRecordsStopReason ==
    (Evald /\ WellFormed /\ ev.exit = "return" /\ ~ev.ret) =>
        (ev.set /\ zone.StopReason = ev.reason /\ ev.reason # <<>>)

\* Checks of the model of the functions on cases with known outcomes.
SanityLeave ==
    /\ (Evald /\ ev.fn = "LeaveSyncNsesAction" /\ zone.ZoneType = "debug")
          => (ev.ret /\ ev.trace = <<>>)
    /\ (Evald /\ ev.fn = "LeaveSyncNsesPreCondition") => ev.ret
    /\ (Evald /\ ev.fn \in {"LeaveAddCDSPreCondition", "LeaveAddCDSAction"})
          => \A i \in Traffic : ev.trace[i].to # zone.FSMSigner
    /\ (Evald /\ ev.fn = "LeaveSyncNsesAction" /\ ev.exit = "return" /\ ev.ret
              /\ zone.ZoneType # "debug")
          => /\ {ev.trace[i].to : i \in Traffic} = zone.SGroup.SignerMap \cup {zone.FSMSigner}
             /\ ev.in.uerr = {}
    /\ (Evald /\ ev.fn = "LeaveAddCsyncPreCondition" /\ ev.exit = "return" /\ ev.ret)
          => /\ {ev.trace[i].to : i \in Traffic} = zone.SGroup.SignerMap \cup {Hardcoded}
             /\ \A s \in zone.SGroup.SignerMap \cup {Hardcoded} :
                   Range(ev.in.nsAns[s]) \cap ev.in.nsRows[Hardcoded] = {}
    /\ (Evald /\ ev.exit = "fatal") => zone.ZoneType # "debug"

\* C20: the evaluation of a LEAVE precondition or action for a non-debug zone
\* (in a signer group) whose FSMSigner is empty sends no query and no update
\* to any signer.
C20_NoTrafficWithoutFSMSigner ==
    (Evald /\ zone.ZoneType # "debug" /\ zone.SGroup.present /\ zone.FSMSigner = "")
        => Traffic = {}

\* flags & 0x101
Masked(k) == 256 * ((k.Flags \div 256) % 2) + (k.Flags % 2)

\* The signers of the zone's group but for the leaving one.
Remaining == zone.SGroup.SignerMap \ {zone.FSMSigner}

\* The updates of the evaluation, in order.
Updates == SelectSeq(ev.trace, LAMBDA t : t.op = "update")

\* The number of remaining signers that answered key k, its flags masked
\* with 0x101 being 257.
KskAnswers(k) ==
    Cardinality({s \in Remaining :
                    /\ Masked(k) = 257
                    /\ \E i \in 1 .. Len(ev.in.keyAns[s]) : ev.in.keyAns[s][i] = k})

\* The number of places of a sequence at which P holds.
Occurrences(sq, P(_)) == Cardinality({i \in 1 .. Len(sq) : P(sq[i])})

\* C14: every update that LeaveAddCDSAction makes for a non-debug zone goes to
\* a remaining signer and inserts two RRsets: the CDS set holds one SHA-256
\* CDS, and the CDNSKEY set one CDNSKEY echoing the key, for each DNSKEY with
\* flags & 0x101 = 257 in the answer of a remaining signer, and nothing else;
\* and when the action returns true every remaining signer has had one such
\* update.
C14_CDSSetsFromKSKsOnly ==
    (Evald /\ ev.fn = "LeaveAddCDSAction" /\ zone.ZoneType # "debug") =>
        /\ \A i \in 1 .. Len(Updates) :
              LET u == Updates[i]
                  cdses == u.inserts[1]
                  cdnskeys == u.inserts[2]
              IN  /\ u.to \in Remaining
                  /\ u.to # zone.FSMSigner
                  /\ Len(u.inserts) = 2
                  /\ u.removes = {}
                  /\ \A j \in 1 .. Len(cdses) :
                        /\ cdses[j].rrtype = "CDS"
                        /\ cdses[j].DigestType = "SHA256"
                        /\ \E k \in Keys : cdses[j].Digest = <<"sha256 of", k>>
                  /\ \A j \in 1 .. Len(cdnskeys) :
                        /\ cdnskeys[j].rrtype = "CDNSKEY"
                        /\ \E k \in Keys :
                              /\ cdnskeys[j].Flags = k.Flags
                              /\ cdnskeys[j].PublicKey = k.PublicKey
                  /\ \A k \in Keys :
                        /\ Occurrences(cdses, LAMBDA rr : rr.Digest = <<"sha256 of", k>>)
                              = KskAnswers(k)
                        /\ Occurrences(cdnskeys,
                                       LAMBDA rr : /\ rr.Flags = k.Flags
                                                   /\ rr.Protocol = k.Protocol
                                                   /\ rr.Algorithm = k.Algorithm
                                                   /\ rr.PublicKey = k.PublicKey)
                              = KskAnswers(k)
        /\ (ev.exit = "return" /\ ev.ret) =>
              \A s \in Remaining :
                  Cardinality({i \in 1 .. Len(Updates) : Updates[i].to = s}) = 1

\* The action has returned true for a zone whose leaving signer is still in
\* the member set, after two remaining signers answered a key signing key and
\* a zone signing key each.
C14_Witness ==
    /\ ev.fn = "LeaveAddCDSAction"
    /\ zone.ZoneType = "normal"
    /\ zone.FSMSigner \in zone.SGroup.SignerMap
    /\ Cardinality(Remaining) = 2
    /\ \A s \in Remaining : Len(ev.in.keyAns[s]) = 2
    /\ ev.exit = "return" /\ ev.ret
    /\ Len(Updates) = 2
    /\ Len(Updates[1].inserts[1]) = 2

\* The actions of the LEAVE transitions.
LeaveActions == {"LeaveSyncNsesAction", "LeaveAddCDSAction", "LeaveAddCsyncAction"}

\* The update has an RR to insert or to remove.
Carries(u) == u.removes # {} \/ \E j \in 1 .. Len(u.inserts) : u.inserts[j] # <<>>

\* The number of updates with an RR that the evaluation sent to signer s.
UpdatesTo(s) ==
    Cardinality({i \in 1 .. Len(Updates) : Updates[i].to = s /\ Carries(Updates[i])})

\* C21: in one execution of a LEAVE action (for a zone in a signer group that
\* names its leaving signer) each signer is sent at most one update (counting
\* only updates that have an RR), also when the leaving signer is still in
\* the member set.
C21_AtMostOneUpdatePerSigner ==
    (Evald /\ ev.fn \in LeaveActions /\ WellFormed) =>
        \A s \in Names : UpdatesTo(s) <= 1

\* The NS queries of the evaluation that went to signer s.
NsQueriesTo(s) ==
    {i \in 1 .. Len(ev.trace) : ev.trace[i] = [op |-> "query", to |-> s, rrtype |-> "NS"]}

\* What LEAVE_ADD_CSYNC's precondition is to establish for leaving signer l:
\* the store has l and its zone_nses rows were read, every member signer and l
\* answered an NS query, and none of the answers has an NS name of those rows.
CsyncPreHolds(l) ==
    /\ l \in ev.in.storeHas
    /\ ev.in.dbFault = "none"
    /\ \A s \in zone.SGroup.SignerMap \cup {l} :
          /\ NsQueriesTo(s) # {}
          /\ s \notin ev.in.qerr
          /\ \A i \in 1 .. Len(ev.in.nsAns[s]) : ev.in.nsAns[s][i] \notin ev.in.nsRows[l]

\* C22: LeaveAddCsyncPreCondition returns true if and only if the store
\* lookups succeed, the NS query to every member signer and to the leaving
\* signer (the zone's FSMSigner) succeeds, and no NS name recorded in zone_nses
\* for the leaving signer is in any of the answers.
C22_CsyncPreTrueIffNsesGone ==
    (Evald /\ ev.fn = "LeaveAddCsyncPreCondition" /\ WellFormed) =>
        ((ev.exit = "return" /\ ev.ret) <=> CsyncPreHolds(zone.FSMSigner))

\* The same for the signer the function names in its source, whatever the
\* zone's FSMSigner is.
CsyncPreForHardcoded ==
    (Evald /\ ev.fn = "LeaveAddCsyncPreCondition" /\ zone.SGroup.present) =>
        ((ev.exit = "return" /\ ev.ret) <=> CsyncPreHolds(Hardcoded))

\* The DNSKEY queries of the evaluation that went to signer s.
KeyQueriesTo(s) ==
    {i \in 1 .. Len(ev.trace) : ev.trace[i] = [op |-> "query", to |-> s, rrtype |-> "DNSKEY"]}

\* Key k has the identity "<protocol>-<algorithm>-<publickey>" of a row.
Recorded(k, rows) ==
    \E row \in rows : row = <<k.Protocol, "-", k.Algorithm, "-", k.PublicKey>>

\* What LEAVE_ADD_CDS's precondition is to establish: the store has the
\* leaving signer and its zone_dnskeys rows were read, every remaining signer
\* answered a DNSKEY query, and none of the answered keys is recorded in those
\* rows.
CdsPreHolds ==
    /\ zone.FSMSigner \in ev.in.storeHas
    /\ ev.in.dbFault = "none"
    /\ \A s \in Remaining :
          /\ KeyQueriesTo(s) # {}
          /\ s \notin ev.in.qerr
          /\ \A i \in 1 .. Len(ev.in.keyAns[s]) :
                ~Recorded(ev.in.keyAns[s][i], ev.in.keyRows[zone.FSMSigner])

IsCsyncFor(u, s) ==
    /\ u.to = s
    /\ Len(u.inserts) = 1
    /\ Len(u.inserts[1]) = 1
    /\ u.inserts[1][1].rrtype = "CSYNC"
    /\ u.inserts[1][1].Serial = Serial(s)
    /\ u.inserts[1][1].Flags = 3
    /\ u.inserts[1][1].TypeBitMap = <<"A", "NS", "AAAA">>

\* C24: when LeaveAddCsyncAction returns true (for a zone whose FSMSigner is
\* the signer the function names), every member signer and the leaving signer
\* has been sent a CSYNC RR with its own SOA serial, flags 3 and the type
\* bitmap A, NS, AAAA.
C24_SuccessMeansCsyncEverywhere ==
    (Evald /\ ev.fn = "LeaveAddCsyncAction" /\ zone.SGroup.present
           /\ zone.FSMSigner = Hardcoded /\ ev.exit = "return" /\ ev.ret) =>
        \A s \in zone.SGroup.SignerMap \cup {zone.FSMSigner} :
            \E i \in 1 .. Len(Updates) : IsCsyncFor(Updates[i], s)

\* The removal of the NS RRs of the leaving signer's zone_nses rows, and of
\* nothing else, sent to signer s.
RemovesRecordedNses(u, s) ==
    /\ u.to = s
    /\ u.inserts = <<>>
    /\ u.removes = {[rrtype |-> "NS", ns |-> n] : n \in ev.in.nsRows[zone.FSMSigner]}

\* C25: when LeaveSyncNsesAction returns true for a non-debug zone, every
\* update it sent removes exactly the NS RRs of the zone_nses rows stored for
\* the leaving signer, and such an update has been sent to every member signer
\* and to the leaving signer.
C25_RemovesRecordedNsesEverywhere ==
    (Evald /\ ev.fn = "LeaveSyncNsesAction" /\ zone.ZoneType # "debug"
           /\ ev.exit = "return" /\ ev.ret) =>
        /\ \A i \in 1 .. Len(Updates) : RemovesRecordedNses(Updates[i], Updates[i].to)
        /\ \A s \in zone.SGroup.SignerMap \cup {zone.FSMSigner} :
              \E i \in 1 .. Len(Updates) : RemovesRecordedNses(Updates[i], s)

\* The action has returned true for a zone with two member signers and a
\* leaving signer outside the member set that has two NS names recorded.
C25_Witness ==
    /\ ev.fn = "LeaveSyncNsesAction"
    /\ zone.ZoneType = "normal"
    /\ zone.FSMSigner \in Names \ zone.SGroup.SignerMap
    /\ Cardinality(zone.SGroup.SignerMap) = 2
    /\ ev.in.nsRows[zone.FSMSigner] = NSNames
    /\ ev.exit = "return" /\ ev.ret
    /\ Len(Updates) = 3
    /\ Cardinality(Updates[3].removes) = 2

\* Event i of the evaluation is a query or an update that failed: its signer
\* is one whose Exchange, or whose updater.Update, returns an error.
FailedAt(i) ==
    \/ ev.trace[i].op = "query" /\ ev.trace[i].to \in ev.in.qerr
    \/ ev.trace[i].op = "update" /\ ev.trace[i].to \in ev.in.uerr

ZoneNames == {"a.se.", "b.se.", "c.se."}

FsmModes == {"auto", "manual"}

Processes == {"", "REMOVE-SIGNER"}

Statuses == {"ok", "blocked", "stop"}

Rows == [fsmmode : FsmModes, fsm : Processes, fsmstatus : Statuses]

\* The outcome of a SELECT over the zones table, the order of the rows being
\* the database's.
QueryWithStopped(t) ==
    {z \in DOMAIN t : t[z].fsmmode = "auto" /\ t[z].fsm # ""}

AutoZones(t) ==
    {z \in DOMAIN t :
        t[z].fsmmode = "auto" /\ t[z].fsm # "" /\ t[z].fsmstatus # "stop"}

\* What one FSM step leaves in the zone's row: the zone moved on, the process
\* came to its end, a precondition failed, no transition fits; or the
\* transition function ended the process with log.Fatalf.
StepOutcomes == {"advanced", "finished", "blocked", "stop", "fatal"}

ZoneStepFsm(row, out) ==
    CASE out = "advanced" -> [row EXCEPT !.fsmstatus = "ok"]
      [] out = "finished" -> [row EXCEPT !.fsm = "", !.fsmstatus = "ok"]
      [] out = "blocked"  -> [row EXCEPT !.fsmstatus = "blocked"]
      [] out = "stop"     -> [row EXCEPT !.fsmstatus = "stop"]
      [] OTHER            -> row

\* The statement of PushZones that fails, if one does.
PushFaults == {"none", "prepare", "begin", "query", "scan"}

PushInit ==
    /\ zones \in [ZoneNames -> Rows]
    /\ pushpc = "idle"
    /\ selected = <<>>
    /\ pos = 1
    /\ atStart = zones
    /\ stepped = <<>>
    /\ LaneIdle
    /\ LeaveIdle
    /\ CallIdle

\* PushZones up to its loop: prepare, begin, query, scan the rows into the
\* slice, commit.
PushZones ==
    /\ pushpc \in {"idle", "done", "failed"}
    /\ \E fault \in PushFaults :
         /\ atStart' = zones
         /\ stepped' = <<>>
         /\ pos' = 1
         /\ CASE fault \in {"prepare", "begin"} ->
                   /\ pushpc' = "exit"
                   /\ selected' = <<>>
              [] fault = "query" ->
                   \* rows is nil when the deferred rows.Close() runs
                   /\ pushpc' \in {"failed", "exit"}
                   /\ selected' = <<>>
              [] fault = "scan" ->
                   /\ AutoZones(zones) # {}
                   /\ pushpc' = "exit"
                   /\ selected' = <<>>
              [] OTHER ->
                   /\ selected' \in Orders(AutoZones(zones))
                   /\ pushpc' = "loop"
    /\ UNCHANGED <<zones, laneVars, leaveVars, callVars>>

\* One turn of the loop over the slice: PushZone(z).
PushZone ==
    /\ pushpc = "loop"
    /\ pos <= Len(selected)
    /\ LET z == selected[pos] IN
         \E out \in StepOutcomes :
            /\ zones' = [zones EXCEPT ![z] = ZoneStepFsm(zones[z], out)]
            /\ stepped' = Append(stepped, z)
            /\ IF out = "fatal"
                 THEN pushpc' = "exit" /\ pos' = pos
                 ELSE pushpc' = "loop" /\ pos' = pos + 1
    /\ UNCHANGED <<selected, atStart, laneVars, leaveVars, callVars>>

\* The loop is over: return nil.
PushReturn ==
    /\ pushpc = "loop"
    /\ pos > Len(selected)
    /\ pushpc' = "done"
    /\ UNCHANGED <<zones, selected, pos, atStart, stepped, laneVars, leaveVars, callVars>>

\* The control plane, while the scheduler runs: an operator releases a
\* stopped zone, or stops one.
OperatorEdit ==
    /\ pushpc # "exit"
    /\ \E z \in ZoneNames :
         \/ /\ zones[z].fsmstatus = "stop"
            /\ zones' = [zones EXCEPT ![z].fsmstatus = "ok"]
         \/ /\ zones[z].fsmstatus # "stop"
            /\ zones' = [zones EXCEPT ![z].fsmstatus = "stop"]
    /\ UNCHANGED <<pushpc, selected, pos, atStart, stepped, laneVars, leaveVars, callVars>>

PushNext == PushZones \/ PushZone \/ PushReturn \/ OperatorEdit

PushSpec == PushInit /\ [][PushNext]_vars

(***************************************************************************)
(* Claims about the auto-push scheduler.                                   *)
(***************************************************************************)

\* The zone was in automatic mode, in a process and not stopped when the
\* pass started.
DueAtStart(z) ==
    /\ atStart[z].fsmmode = "auto"
    /\ atStart[z].fsm # ""
    /\ atStart[z].fsmstatus # "stop"

Steps(z) == Cardinality({i \in 1 .. Len(stepped) : stepped[i] = z})

PassOver == pushpc \in {"done", "exit"}

\* C30: when a pass is over, every zone it selected has had its step, whatever
\* became of the steps of the zones before it: a step that failed, or that hit
\* a missing signer group or an empty FSMSigner, has not kept the pass from
\* the remaining zones.
C30_FailedStepKeepsPassGoing ==
    PassOver => \A i \in 1 .. Len(selected) : Steps(selected[i]) = 1

(***************************************************************************)
(* The rlddns updater: Update, RemoveRRset, FetchRRset, and the two        *)
(* functions the lane workers call, RLDdnsUpdate and RLDdnsFetchRRset.     *)
(***************************************************************************)

\* A nil error, a nil channel.
Nil == "nil"

\* Pointers: nil, or a reference to a value.
NilPtr == [nil |-> TRUE]
Ref(v) == [nil |-> FALSE, v |-> v]

Ptrs(S) == {NilPtr} \cup {Ref(v) : v \in S}

\* signer.Auth, a string of "name:secret", character by character.
AuthValues ==
    { <<>>, <<"k">>, <<"k", ":", "s">>, <<":", "s">>, <<"k", ":">>,
      <<"k", ":", "s", ":", "s">> }

AddressValues == {"", "192.0.2.1"}

RLSigners == [Name : {"s1."}, Address : AddressValues, Auth : AuthValues]

\* [][]dns.RR
RRsetLists == { <<>>, <<<<>>>>, <<<<"rr1">>>>, <<<<"rr1">>, <<"rr2">>>> }

\* What c.Exchange comes back with.
Exchanges == {"error", "refused", "success"}

\* The fudge of the TSIG RR.
TsigFudge == 300

\* strings.SplitN(str, ":", 2)
SplitN2(str) ==
    IF \E i \in 1 .. Len(str) : str[i] = ":"
    THEN LET i == CHOOSE i \in 1 .. Len(str) :
                     str[i] = ":" /\ \A j \in 1 .. (i - 1) : str[j] # ":"
         IN  <<SubSeq(str, 1, i - 1), SubSeq(str, i + 1, Len(str))>>
    ELSE <<str>>

\* The total number of RRs of a list of RRsets.
RECURSIVE RRCount(_)
RRCount(list) ==
    IF list = <<>> THEN 0 ELSE Len(Head(list)) + RRCount(Tail(list))

\* The count over *inserts / *removes, 0 for a nil pointer.
PtrCount(ptr) == IF ptr.nil THEN 0 ELSE RRCount(ptr.v)

\* m.SetTsig left out.
SetNoTsig(m, name) == m

\* m.SetTsig(name, dns.HmacSHA256, 300, time.Now().Unix()): a TSIG RR is
\* appended to the additional section.
SetTsig(m, name) ==
    [m EXCEPT !.extra = Append(@, [rrtype |-> "TSIG", name |-> name,
                                   algorithm |-> "hmac-sha256.",
                                   fudge |-> TsigFudge])]

\* new(dns.Msg) with SetUpdate / SetQuestion.
NewMsg(opcode, owner) ==
    [opcode |-> opcode, zone |-> owner, ins |-> <<>>, rem |-> <<>>,
     extra |-> <<>>]

\* The error (or nil) an Exchange outcome becomes.
ExchangeError(x) ==
    CASE x = "error"   -> "exchange error"
      [] x = "refused" -> "RCODE error"
      [] OTHER         -> Nil

\* What a function of the updater has done: the messages it has sent to
\* signers, the result written to the op's response channel (results), and
\* the error it returns.
Did(sent, results, ret) == [exit |-> "return", sent |-> sent, results |-> results, ret |-> ret]

\* A nil pointer was dereferenced.
Crashed == [exit |-> "panic", sent |-> <<>>, results |-> <<>>, ret |-> Nil]

\* The zero SignerOp.
ZeroOp == [Signer |-> NilPtr, Owner |-> "", Inserts |-> NilPtr,
           Removes |-> NilPtr, Response |-> Nil]

\* RLDdnsUpdate(udop), run by the update lane worker; x is the outcome of the
\* Exchange, should one be made.
RLDdnsUpdate(udop, x) ==
    IF udop.Signer.nil THEN Crashed
    ELSE
    LET signer == udop.Signer.v
        tsig == SplitN2(signer.Auth)
        err == IF Len(tsig) # 2 THEN "Incorrect TSIG"
               ELSE IF PtrCount(udop.Inserts) = 0 /\ PtrCount(udop.Removes) = 0
                      THEN "Inserts and removes empty"
               ELSE IF signer.Address = "" THEN "No ip|host"
               ELSE IF signer.Auth = <<>> THEN "No TSIG"
               ELSE Nil
        m0 == NewMsg("update", udop.Owner)
        m1 == [m0 EXCEPT !.ins = IF udop.Inserts.nil THEN <<>> ELSE udop.Inserts.v,
                         !.rem = IF udop.Removes.nil THEN <<>> ELSE udop.Removes.v]
        m == SetTsig(m1, tsig[1] \o <<".">>)
    IN  IF err # Nil
        THEN Did(<<>>, <<[Error |-> err]>>, Nil)
        ELSE Did(<<[msg |-> m, to |-> signer.Address, by |-> "worker"]>>,
                 <<[Error |-> ExchangeError(x)]>>, Nil)

\* RLDdnsFetchRRset(fdop), run by the fetch lane worker.
RLDdnsFetchRRset(fdop, x) ==
    IF fdop.Signer.nil THEN Crashed
    ELSE
    LET signer == fdop.Signer.v
        tsig == SplitN2(signer.Auth)
        err == IF Len(tsig) # 2 THEN "Incorrect TSIG"
               ELSE IF signer.Auth = <<>> THEN "No TSIG"
               ELSE IF signer.Address = "" THEN "No ip|host"
               ELSE Nil
        m == SetTsig(NewMsg("query", fdop.Owner), tsig[1] \o <<".">>)
    IN  IF err # Nil
        THEN Did(<<>>, <<[Error |-> err]>>, Nil)
        ELSE Did(<<[msg |-> m, to |-> signer.Address, by |-> "worker"]>>,
                 <<[Error |-> ExchangeError(x)]>>, Nil)

\* RLDdnsUpdater.RemoveRRset(signer, zone, fqdn, rrsets), run by its caller.
RemoveRRset(signer, fqdn, rrsets, x) ==
    LET tsig == SplitN2(signer.Auth)
        m0 == NewMsg("update", fqdn)
        m == SetTsig([m0 EXCEPT !.rem = rrsets], tsig[1] \o <<".">>)
    IN  IF RRCount(rrsets) = 0 THEN Did(<<>>, <<>>, "rrset(s) is empty")
        ELSE IF signer.Address = "" THEN Did(<<>>, <<>>, "No ip|host")
        ELSE IF signer.Auth = <<>> THEN Did(<<>>, <<>>, "No TSIG")
        ELSE IF Len(tsig) # 2 THEN Did(<<>>, <<>>, "Incorrect TSIG")
        ELSE Did(<<[msg |-> m, to |-> signer.Address, by |-> "caller"]>>,
                 <<>>, ExchangeError(x))

\* The call is over: what was put on the manager's channels (boxed) and what
\* came of it.
Called(fn, in, boxed, r) ==
    /\ rl' = [fn |-> fn, in |-> in, boxed |-> boxed, exit |-> r.exit,
              sent |-> r.sent, results |-> r.results, ret |-> r.ret]
    /\ UNCHANGED <<http, extracted, laneVars, leaveVars, pushVars>>

RLInit ==
    /\ rl = NoCall
    /\ http = NoCall
    /\ extracted = NoCall
    /\ LaneIdle
    /\ LeaveIdle
    /\ PushIdle

\* RLDdnsUpdater.Update(signer, zone, fqdn, inserts, removes): the zero op is
\* sent on UpdateCh, and the update worker runs RLDdnsUpdate on it.
CallUpdate ==
    /\ rl.fn = "none"
    /\ \E signer \in RLSigners, ins \in Ptrs(RRsetLists),
          rem \in Ptrs(RRsetLists), x \in Exchanges :
         Called("Update",
                [signer |-> signer, inserts |-> ins, removes |-> rem, x |-> x],
                <<ZeroOp>>, RLDdnsUpdate(ZeroOp, x))

\* The update worker runs RLDdnsUpdate on an op that carries its signer and
\* its RRsets.
CallRLDdnsUpdate ==
    /\ rl.fn = "none"
    /\ \E signer \in RLSigners, ins \in Ptrs(RRsetLists),
          rem \in Ptrs(RRsetLists), x \in Exchanges :
         LET udop == [Signer |-> Ref(signer), Owner |-> "a.se.", Inserts |-> ins,
                      Removes |-> rem, Response |-> "chan"]
         IN  Called("RLDdnsUpdate",
                    [signer |-> signer, inserts |-> ins, removes |-> rem, x |-> x],
                    <<udop>>, RLDdnsUpdate(udop, x))

\* RLDdnsUpdater.RemoveRRset(signer, zone, fqdn, rrsets).
CallRemoveRRset ==
    /\ rl.fn = "none"
    /\ \E signer \in RLSigners, rrsets \in RRsetLists, x \in Exchanges :
         Called("RemoveRRset",
                [signer |-> signer, inserts |-> NilPtr, removes |-> Ref(rrsets), x |-> x],
                <<>>, RemoveRRset(signer, "a.se.", rrsets, x))

\* RLDdnsUpdater.FetchRRset(s, zone, owner, rrtype): the op is sent on
\* FetchCh, the fetch worker runs RLDdnsFetchRRset on it, and the caller
\* returns the error of the result it receives.
CallFetchRRset ==
    /\ rl.fn = "none"
    /\ \E signer \in RLSigners, x \in Exchanges :
         LET fdop == [Signer |-> Ref(signer), Owner |-> "a.se.",
                      Inserts |-> NilPtr, Removes |-> NilPtr, Response |-> "chan"]
             r == RLDdnsFetchRRset(fdop, x)
         IN  Called("FetchRRset",
                    [signer |-> signer, inserts |-> NilPtr, removes |-> NilPtr, x |-> x],
                    <<fdop>>, [r EXCEPT !.ret = r.results[1].Error])

RLNext == CallUpdate \/ CallRLDdnsUpdate \/ CallRemoveRRset \/ CallFetchRRset

RLSpec == RLInit /\ [][RLNext]_vars

(***************************************************************************)
(* Claims about the rlddns updater.                                        *)
(***************************************************************************)

RLCalled == rl.fn # "none"

\* The functions that stand for an operation of the updater as its users
\* call it.
UpdaterOps == {"Update", "RemoveRRset", "FetchRRset"}

\* C13: every DNS message that an operation of the rlddns updater gets
\* through to a signer is sent by a lane worker, for an op that the operation has put on
\* a channel of the manager.
C13_EveryOpThroughManager ==
    (RLCalled /\ rl.fn \in UpdaterOps /\ rl.in.x = "success") =>
        \A i \in 1 .. Len(rl.sent) :
            rl.sent[i].by = "worker" /\ rl.boxed # <<>>

\* The TSIG RRs of a message.
Tsigs(m) == SelectSeq(m.extra, LAMBDA rr : rr.rrtype = "TSIG")

\* The key name of a credential "name:secret": what stands before the first
\* colon, as a domain name.
RECURSIVE KeyName(_)
KeyName(auth) ==
    IF auth = <<>> \/ Head(auth) = ":" THEN <<".">>
    ELSE <<Head(auth)>> \o KeyName(Tail(auth))

\* C15: every UPDATE message sent by RLDdnsUpdate or RemoveRRset carries
\* exactly one TSIG RR, with algorithm HMAC-SHA256, fudge 300 and the key name
\* of the signer's credential.
C15_UpdatesCarryOneTsig ==
    (RLCalled /\ rl.fn \in {"RLDdnsUpdate", "RemoveRRset"}) =>
        \A i \in 1 .. Len(rl.sent) :
            LET m == rl.sent[i].msg IN
            m.opcode = "update" =>
                /\ Len(Tsigs(m)) = 1
                /\ Tsigs(m)[1].algorithm = "hmac-sha256."
                /\ Tsigs(m)[1].fudge = 300
                /\ Tsigs(m)[1].name = KeyName(rl.in.signer.Auth)

\* RemoveRRset has sent an UPDATE for a credential with two colons.
C15_Witness ==
    /\ rl.fn = "RemoveRRset"
    /\ rl.in.signer.Auth = <<"k", ":", "s", ":", "s">>
    /\ Len(rl.sent) = 1
    /\ rl.sent[1].msg.opcode = "update"
    /\ rl.ret = Nil

(***************************************************************************)
(* The provider HTTP adapter: GenericAPIget/post/put/delete and the Api    *)
(* client's Get/Post/Put/Delete with requestHelper.                        *)
(***************************************************************************)

AuthMethods == {"X-API-Key", "Authorization", "none", "", "basic"}

ApiKeys == {"", "secret"}

\* What client.Do and the reading of the body come to: Do returns an error;
\* the body cannot be read to its end; or the response is read.
Transports == {"fail", "readfail", "ok"}

HttpInputs ==
    [authmethod : AuthMethods, apikey : ApiKeys, urlOK : BOOLEAN,
     transport : Transports, noauth : BOOLEAN]

\* The function has returned (status, body, error); sent tells whether the
\* request was handed to client.Do, and hdrs are the request's headers.
Returned(status, err, sent, hdrs) ==
    [exit |-> "return", status |-> status, err |-> err, sent |-> sent,
     hdrs |-> hdrs]

\* The process has ended in the function: log.Fatalf ("fatal"), os.Exit
\* ("exit") or a nil dereference ("panic").
Ended(how, sent, hdrs) ==
    [exit |-> how, status |-> 0, err |-> Nil, sent |-> sent, hdrs |-> hdrs]

\* The authentication header the GenericAPI functions add for a method they
\* know. A header is a name with its value, word by word.
GenericAuth(authmethod, apikey) ==
    CASE authmethod = "X-API-Key" ->
             [known |-> TRUE, hdrs |-> {<<"X-API-Key", <<apikey>>>>}]
      [] authmethod = "Authorization" ->
             [known |-> TRUE, hdrs |-> {<<"Authorization", <<"token", apikey>>>>}]
      [] authmethod = "none" ->
             [known |-> TRUE, hdrs |-> {}]
      [] OTHER ->
             [known |-> FALSE, hdrs |-> {}]

\* What follows client.Do in GenericAPIget, post and put and in
\* requestHelper: the error of Do is returned with status onErr; otherwise
\* the status of the response and the error of ReadAll.
AfterDo(in, onErr, hdrs) ==
    CASE in.transport = "fail"     -> Returned(onErr, "transport error", TRUE, hdrs)
      [] in.transport = "readfail" -> Returned(200, "read error", TRUE, hdrs)
      [] OTHER                     -> Returned(200, Nil, TRUE, hdrs)

\* What follows client.Do in GenericAPIdelete: os.Exit(1) on an error of Do.
AfterDoDelete(in, hdrs) ==
    IF in.transport = "fail" THEN Ended("exit", TRUE, hdrs)
    ELSE AfterDo(in, 0, hdrs)

GenericAPIget(in) ==
    LET auth == GenericAuth(in.authmethod, in.apikey) IN
    IF ~in.urlOK
    THEN \* the error of NewRequest is printed and the nil request used
         IF in.authmethod \in {"none", "X-API-Key", "Authorization"}
         THEN Ended("panic", FALSE, {})
         ELSE Returned(501, "unknown auth method", FALSE, {})
    ELSE IF ~auth.known THEN Returned(501, "unknown auth method", FALSE, {})
    ELSE AfterDo(in, 0, auth.hdrs)

ContentType == {<<"Content-Type", <<"application/json">>>>}

\* GenericAPIpost and GenericAPIput.
GenericAPIpost(in) ==
    LET auth == GenericAuth(in.authmethod, in.apikey) IN
    IF ~in.urlOK THEN Ended("fatal", FALSE, {})
    ELSE IF ~auth.known
    THEN Returned(501, "unknown auth method", FALSE, ContentType)
    ELSE AfterDo(in, 501, ContentType \cup auth.hdrs)

GenericAPIput(in) == GenericAPIpost(in)

GenericAPIdelete(in) ==
    LET auth == GenericAuth(in.authmethod, in.apikey) IN
    IF ~in.urlOK
    THEN IF in.authmethod \in {"none", "X-API-Key", "Authorization"}
         THEN Ended("panic", FALSE, {})
         ELSE Returned(501, "unknown auth method", FALSE, {})
    ELSE IF ~auth.known THEN Returned(501, "unknown auth method", FALSE, {})
    ELSE AfterDoDelete(in, auth.hdrs)

\* api.requestHelper(req, noauth)
requestHelper(in, noauth) ==
    LET known == in.authmethod = "" \/ noauth
                    \/ in.authmethod \in {"X-API-Key", "Authorization"}
        auth == IF in.authmethod = "" \/ noauth THEN {}
                ELSE GenericAuth(in.authmethod, in.apikey).hdrs
    IN  IF ~known THEN Returned(501, "unknown auth method", FALSE, ContentType)
        ELSE IF in.apikey = "" THEN Ended("fatal", FALSE, ContentType \cup auth)
        ELSE AfterDo(in, 501, ContentType \cup auth)

\* Api.Post passes noauth on; Get, Put and Delete pass false.
ApiRequest(method, in) ==
    IF ~in.urlOK THEN Ended("fatal", FALSE, {})
    ELSE requestHelper(in, IF method = "Post" THEN in.noauth ELSE FALSE)

HttpInit ==
    /\ http = NoCall
    /\ rl = NoCall
    /\ extracted = NoCall
    /\ LaneIdle
    /\ LeaveIdle
    /\ PushIdle

Requested(fn, in, r) ==
    /\ http' = [fn |-> fn, in |-> in, exit |-> r.exit, status |-> r.status,
                err |-> r.err, sent |-> r.sent, hdrs |-> r.hdrs]
    /\ UNCHANGED <<rl, extracted, laneVars, leaveVars, pushVars>>

\* The inputs with the option that a function does not take left at false.
NoOpts == {in \in HttpInputs : ~in.noauth}

CallGenericAPIget ==
    http.fn = "none" /\ \E in \in NoOpts : Requested("GenericAPIget", in, GenericAPIget(in))

CallGenericAPIpost ==
    http.fn = "none" /\ \E in \in NoOpts : Requested("GenericAPIpost", in, GenericAPIpost(in))

CallGenericAPIput ==
    http.fn = "none" /\ \E in \in NoOpts : Requested("GenericAPIput", in, GenericAPIput(in))

CallGenericAPIdelete ==
    http.fn = "none" /\ \E in \in NoOpts :
        Requested("GenericAPIdelete", in, GenericAPIdelete(in))

CallApiGet ==
    http.fn = "none" /\ \E in \in NoOpts : Requested("Api.Get", in, ApiRequest("Get", in))

CallApiPost ==
    http.fn = "none" /\ \E in \in HttpInputs : Requested("Api.Post", in, ApiRequest("Post", in))

CallApiPut ==
    http.fn = "none" /\ \E in \in NoOpts : Requested("Api.Put", in, ApiRequest("Put", in))

CallApiDelete ==
    http.fn = "none" /\ \E in \in NoOpts :
        Requested("Api.Delete", in, ApiRequest("Delete", in))

HttpNext ==
    \/ CallGenericAPIget \/ CallGenericAPIpost \/ CallGenericAPIput
    \/ CallGenericAPIdelete
    \/ CallApiGet \/ CallApiPost \/ CallApiPut \/ CallApiDelete

HttpSpec == HttpInit /\ [][HttpNext]_vars

(***************************************************************************)
(* Claims about the HTTP adapter.                                          *)
(***************************************************************************)

HttpCalled == http.fn # "none"

GenericFns ==
    {"GenericAPIget", "GenericAPIpost", "GenericAPIput", "GenericAPIdelete"}

\* C17: when client.Do fails in GenericAPIget, post, put or delete, the
\* function returns to its caller with a non-nil error.
C17_TransportErrorSurfaced ==
    (HttpCalled /\ http.fn \in GenericFns /\ http.sent /\ http.in.transport = "fail")
        => (http.exit = "return" /\ http.err # Nil)

\* The names of the authentication headers.
AuthHeaderNames == {"X-API-Key", "Authorization"}

\* C18: with the scheme "none" (and a URL that parses) every request path
\* sends the request, with no authentication header, and does not reject it.
C18_SchemeNoneSupported ==
    (HttpCalled /\ http.in.authmethod = "none" /\ http.in.urlOK
        /\ http.in.transport = "ok") =>
        /\ http.exit = "return"
        /\ http.sent
        /\ http.err = Nil
        /\ \A h \in http.hdrs : h[1] \notin AuthHeaderNames

(***************************************************************************)
(* ExtractHoldPeriod: the hold period in the body of a 429 response.       *)
(* Strings are sequences of characters.                                    *)
(***************************************************************************)

\* The largest hold period tried.
MaxHold == 130

\* "Request was throttled. Expected available in "
ThrottlePrefix ==
    <<"R", "e", "q", "u", "e", "s", "t", " ", "w", "a", "s", " ",
    "t", "h", "r", "o", "t", "t", "l", "e", "d", ".", " ", "E",
    "x", "p", "e", "c", "t", "e", "d", " ", "a", "v", "a", "i",
    "l", "a", "b", "l", "e", " ", "i", "n", " ">>

\* " second."
ThrottleSuffix == <<" ", "s", "e", "c", "o", "n", "d", ".">>

DigitChars == <<"0", "1", "2", "3", "4", "5", "6", "7", "8", "9">>

\* strconv.Itoa for a number that is not negative.
RECURSIVE Itoa(_)
Itoa(n) == IF n < 10 THEN <<DigitChars[n + 1]>>
           ELSE Itoa(n \div 10) \o <<DigitChars[(n % 10) + 1]>>

\* The value of a digit character.
DigitVal(c) == (CHOOSE i \in 1 .. 10 : DigitChars[i] = c) - 1

\* strconv.Atoi: an optional sign, then digits only and at least one; any
\* other string is a syntax error, for which 0 is returned with the error.
RECURSIVE AtoiDigits(_, _)
AtoiDigits(str, n) ==
    IF str = <<>> THEN [val |-> n, err |-> FALSE]
    ELSE IF Head(str) \notin Range(DigitChars) THEN [val |-> 0, err |-> TRUE]
    ELSE AtoiDigits(Tail(str), n * 10 + DigitVal(Head(str)))

Atoi(str) ==
    LET signed == str # <<>> /\ Head(str) \in {"+", "-"}
        rest == IF signed THEN Tail(str) ELSE str
        r == AtoiDigits(rest, 0)
    IN  IF rest = <<>> THEN [val |-> 0, err |-> TRUE]
        ELSE IF signed /\ Head(str) = "-" /\ ~r.err THEN [val |-> 0 - r.val, err |-> FALSE]
        ELSE r

\* Trimming nothing.
TrimLeftNothing(str, cutset) == str

\* strings.TrimLeft(s, cutset): the leading characters that are in the cutset
\* are removed.
RECURSIVE TrimLeft(_, _)
TrimLeft(str, cutset) ==
    IF str # <<>> /\ Head(str) \in Range(cutset) THEN TrimLeft(Tail(str), cutset)
    ELSE str

\* strings.TrimRight(s, cutset): the trailing characters that are in the
\* cutset are removed.
RECURSIVE TrimRight(_, _)
TrimRight(str, cutset) ==
    IF str # <<>> /\ str[Len(str)] \in Range(cutset)
    THEN TrimRight(SubSeq(str, 1, Len(str) - 1), cutset)
    ELSE str

\* A response body: JSON that json.Unmarshal rejects, or an object whose
\* "detail" member (the empty string when it has none) is the Detail decoded.
Body(detail) == [json |-> "object", detail |-> detail]
Malformed == [json |-> "malformed", detail |-> <<>>]

\* The body deSEC sends when it throttles, asking for n seconds.
ThrottleBody(n) == Body(ThrottlePrefix \o Itoa(n) \o ThrottleSuffix)

\* "Not found."
NotFound == <<"N", "o", "t", " ", "f", "o", "u", "n", "d", ".">>

HoldBodies ==
    {ThrottleBody(n) : n \in 0 .. MaxHold}
    \cup {Body(ThrottlePrefix \o Itoa(n) \o <<" ", "s", "e", "c", "o", "n", "d", "s", ".">>) :
             n \in {2, 30}}
    \cup {Body(<<>>), Body(NotFound), Body(ThrottlePrefix \o <<"-", "1">> \o ThrottleSuffix),
          Malformed}

\* ExtractHoldPeriod(buf): the process ends (log.Fatalf) when the body is not
\* JSON; otherwise Detail is trimmed on both sides and converted, and the
\* value that Atoi returned, 0 with an error, is the result.
ExtractHoldPeriod(buf) ==
    IF buf.json = "malformed" THEN [exit |-> "fatal", ret |-> 0]
    ELSE LET d1 == TrimLeft(buf.detail, ThrottlePrefix)
             d2 == TrimRight(d1, ThrottleSuffix)
         IN  [exit |-> "return", ret |-> Atoi(d2).val]

HoldInit ==
    /\ extracted = NoCall
    /\ rl = NoCall
    /\ http = NoCall
    /\ LaneIdle
    /\ LeaveIdle
    /\ PushIdle

CallExtractHoldPeriod ==
    /\ extracted = NoCall
    /\ \E buf \in HoldBodies :
          LET r == ExtractHoldPeriod(buf)
          IN  extracted' = [fn |-> "ExtractHoldPeriod", in |-> buf,
                            exit |-> r.exit, ret |-> r.ret]
    /\ UNCHANGED <<rl, http, laneVars, leaveVars, pushVars>>

HoldNext == CallExtractHoldPeriod

HoldSpec == HoldInit /\ [][HoldNext]_vars

(***************************************************************************)
(* Claims about ExtractHoldPeriod                                          *)
(***************************************************************************)

\* C29: for every body whose detail is "Request was throttled. Expected
\* available in N second." with N a decimal number that is not negative,
\* ExtractHoldPeriod returns N.
C29_HoldPeriodExtracted ==
    \A n \in 0 .. MaxHold :
        (extracted.fn = "ExtractHoldPeriod" /\ extracted.in = ThrottleBody(n))
            => (extracted.exit = "return" /\ extracted.ret = n)

\* The body of the 429 scenario has given 7.
C29_Witness ==
    /\ extracted.fn = "ExtractHoldPeriod"
    /\ extracted.in = ThrottleBody(7)
    /\ extracted.ret = 7

=============================================================================
